---- MODULE Spec2Model ----
(***************************************************************************)
(* MatrixBridge (src/main.py): a Matrix bot that relays text, image, audio *)
(* and file events of a room to one webhook.  The model covers the event   *)
(* pipeline of class MatrixBot: the timestamp watermark, the mxc:// URL    *)
(* transformation, the media download, the payloads and the webhook POST,  *)
(* and the termination of the process when a callback raises.              *)
(*                                                                         *)
(* Strings that the code takes apart (media references, URLs, base64 text) *)
(* are sequences of one-character strings; strings that the code only      *)
(* copies (sender, body, ids) are TLA+ strings.                            *)
(***************************************************************************)
EXTENDS Integers, Sequences, FiniteSets, TLC

\* ------------------------------------------------------------------ bounds

\* Number of events the sync loop delivers in one run.
MaxEvents == 3

\* Largest server_timestamp (and start time) of the model, in milliseconds.
MaxTs == 2

\* Latest process start time of the model.
MaxStart == 1

\* Number of events delivered in one run in which callbacks interleave.
MaxInterleaved == 2

\* ------------------------------------------------------------ input domains

Timestamps == 0..MaxTs

StartTimes == 0..MaxStart

\* The events the homeserver can deliver, less their timestamp and media
\* reference: an event_id names one event of one sender in one room
\* (room_id is room.room_id of the room the callback is called with).
Contents ==
  { [sender |-> "@a:h", body |-> "hi", event_id |-> "$1", room_id |-> "!r:h"],
    [sender |-> "@b:h", body |-> "yo", event_id |-> "$2", room_id |-> "!q:h"] }

MxcPrefix == <<"m", "x", "c", ":", "/", "/">>

\* Media references (event.url): conforming, without the prefix, without an
\* identifier segment, with two slashes after the authority.
MediaRefs ==
  { MxcPrefix \o <<"s", "/", "i">>,
    <<"s", "/", "i">>,
    MxcPrefix \o <<"s">>,
    MxcPrefix \o <<"s", "/", "a", "/", "b">> }

\* bot_config["matrix"]["homeserver"]
Homeserver == <<"H">>

DownloadPath == <<"/_matrix/v3/download/">>

\* Python's None and a present value, as records of one shape.
None == [some |-> FALSE, val |-> <<>>]

Some(v) == [some |-> TRUE, val |-> v]

\* ------------------------------------------------------- string operations

\* str.startswith
StartsWith(s, p) == Len(s) >= Len(p) /\ SubSeq(s, 1, Len(p)) = p

\* str.replace(old, new): every non-overlapping occurrence, left to right.
RECURSIVE Replace(_, _, _)
Replace(s, old, new) ==
  IF s = <<>> THEN <<>>
  ELSE IF StartsWith(s, old)
       THEN new \o Replace(SubSeq(s, Len(old) + 1, Len(s)), old, new)
       ELSE <<Head(s)>> \o Replace(Tail(s), old, new)

\* str.split(sep) for a one-character separator: the list of the pieces.
RECURSIVE Split(_, _)
Split(s, sep) ==
  IF \A i \in 1..Len(s) : s[i] # sep THEN <<s>>
  ELSE LET k == CHOOSE i \in 1..Len(s) : s[i] = sep /\ \A j \in 1..(i - 1) : s[j] # sep
       IN <<SubSeq(s, 1, k - 1)>> \o Split(SubSeq(s, k + 1, Len(s)), sep)

\* MatrixBot.transform_mxc_url: None without the prefix; the unpacking of the
\* split raises ValueError unless there are exactly two pieces.
transform_mxc_url(mxc_url) ==
  IF ~StartsWith(mxc_url, MxcPrefix)
  THEN [raised |-> "none", url |-> None]
  ELSE LET parts == Split(Replace(mxc_url, MxcPrefix, <<>>), "/")
       IN IF Len(parts) # 2
          THEN [raised |-> "ValueError", url |-> None]
          ELSE [raised |-> "none",
                url |-> Some(Homeserver \o DownloadPath \o parts[1] \o <<"/">> \o parts[2])]

\* ------------------------------------------------------------------ base64

B64Alphabet ==
  <<"A", "B", "C", "D", "E", "F", "G", "H", "I", "J", "K", "L", "M",
    "N", "O", "P", "Q", "R", "S", "T", "U", "V", "W", "X", "Y", "Z",
    "a", "b", "c", "d", "e", "f", "g", "h", "i", "j", "k", "l", "m",
    "n", "o", "p", "q", "r", "s", "t", "u", "v", "w", "x", "y", "z",
    "0", "1", "2", "3", "4", "5", "6", "7", "8", "9", "+", "/">>

B64Char(n) == B64Alphabet[n + 1]

\* base64.b64encode(bytes).decode(): three bytes to four characters, the last
\* group padded with "=".
RECURSIVE b64encode(_)
b64encode(bytes) ==
  IF Len(bytes) = 0 THEN <<>>
  ELSE IF Len(bytes) = 1
  THEN <<B64Char(bytes[1] \div 4), B64Char((bytes[1] % 4) * 16), "=", "=">>
  ELSE IF Len(bytes) = 2
  THEN <<B64Char(bytes[1] \div 4),
         B64Char((bytes[1] % 4) * 16 + bytes[2] \div 16),
         B64Char((bytes[2] % 16) * 4), "=">>
  ELSE <<B64Char(bytes[1] \div 4),
         B64Char((bytes[1] % 4) * 16 + bytes[2] \div 16),
         B64Char((bytes[2] % 16) * 4 + bytes[3] \div 64),
         B64Char(bytes[3] % 64)>> \o b64encode(SubSeq(bytes, 4, Len(bytes)))

\* ------------------------------------------------------------ media fetch

\* resp.status of a successful download.
HTTP_OK == 200

\* What the media host can answer to the GET: a response (status and body
\* bytes), or no response at all (aiohttp raises a ClientError).
FetchOutcomes ==
  { [error |-> FALSE, status |-> 200, body |-> <<97, 98, 99>>],
    [error |-> FALSE, status |-> 200, body |-> <<102, 111>>],
    [error |-> FALSE, status |-> 200, body |-> <<102>>],
    [error |-> FALSE, status |-> 200, body |-> <<>>],
    [error |-> FALSE, status |-> 404, body |-> <<97>>],
    [error |-> TRUE,  status |-> 0,   body |-> <<>>] }

\* download_media without the test of resp.status: the body of any response
\* is encoded and returned.
download_media_any_status(resp) ==
  IF resp.error
  THEN [raised |-> "ClientError", media_data |-> None, response_status |-> 0]
  ELSE [raised |-> "none", media_data |-> Some(b64encode(resp.body)),
        response_status |-> resp.status]

\* MatrixBot.download_media: (base64 of the body, status) on 200, (None,
\* status) on any other status; an error of the GET is not caught.
download_media(resp) ==
  IF resp.error
  THEN [raised |-> "ClientError", media_data |-> None, response_status |-> 0]
  ELSE IF resp.status = HTTP_OK
       THEN [raised |-> "none", media_data |-> Some(b64encode(resp.body)),
             response_status |-> resp.status]
       ELSE [raised |-> "none", media_data |-> None, response_status |-> resp.status]

\* -------------------------------------------------------------- watermark

\* check_timestamp with the assignment moved out of the if: every event sets
\* the watermark.
check_timestamp_assigns_always(server_timestamp, watermark) ==
  [accepted |-> server_timestamp > watermark, last_event_timestamp |-> server_timestamp]

\* check_timestamp with >= for >: an event at the watermark is accepted.
check_timestamp_accepts_ties(server_timestamp, watermark) ==
  IF server_timestamp >= watermark
  THEN [accepted |-> TRUE, last_event_timestamp |-> server_timestamp]
  ELSE [accepted |-> FALSE, last_event_timestamp |-> watermark]

\* check_timestamp without its assignment: events are accepted, the watermark
\* stays.
check_timestamp_forgets_update(server_timestamp, watermark) ==
  [accepted |-> server_timestamp > watermark, last_event_timestamp |-> watermark]

\* MatrixBot.check_timestamp on a watermark: what it returns and the value it
\* leaves in last_event_timestamp.
check_timestamp(server_timestamp, watermark) ==
  IF server_timestamp > watermark
  THEN [accepted |-> TRUE, last_event_timestamp |-> server_timestamp]
  ELSE [accepted |-> FALSE, last_event_timestamp |-> watermark]

\* ----------------------------------------------------------------- events

\* RoomMessageText events with their room: sender, body, event_id,
\* server_timestamp (url is not read by message_callback).
TextEvents ==
  { [sender |-> c.sender, body |-> c.body, event_id |-> c.event_id,
     room_id |-> c.room_id, server_timestamp |-> ts, url |-> <<>>]
    : c \in Contents, ts \in Timestamps }

\* RoomMessageImage, RoomMessageAudio and RoomMessageFile events: the same
\* with the media reference in url.
MediaEvents ==
  UNION { { [sender |-> c.sender, body |-> c.body, event_id |-> c.event_id,
             room_id |-> c.room_id, server_timestamp |-> ts, url |-> ref]
            : c \in Contents, ts \in Timestamps }
          : ref \in MediaRefs }

NoEvent ==
  [sender |-> "", body |-> "", event_id |-> "", room_id |-> "",
   server_timestamp |-> 0, url |-> <<>>]

\* -------------------------------------------------------------- payloads

\* message_callback's payload with the values of sender and message exchanged.
TextPayload_swapped(room_id, event) ==
  [type |-> "text", sender |-> event.body, message |-> event.sender,
   event_id |-> event.event_id, room_id |-> room_id]

\* message_callback's payload.
TextPayload(room_id, event) ==
  [type |-> "text", sender |-> event.sender, message |-> event.body,
   event_id |-> event.event_id, room_id |-> room_id]

\* image_callback's payload.
ImagePayload(room_id, event, image_url, media_data) ==
  [type |-> "image", sender |-> event.sender, url |-> image_url,
   event_id |-> event.event_id, room_id |-> room_id, data |-> media_data]

\* audio_callback's payload.
AudioPayload(room_id, event, audio_url) ==
  [type |-> "audio", sender |-> event.sender, url |-> audio_url,
   event_id |-> event.event_id, room_id |-> room_id]

\* file_callback's payload.
FilePayload(room_id, event, file_url) ==
  [type |-> "file", sender |-> event.sender, url |-> file_url,
   event_id |-> event.event_id, room_id |-> room_id]

\* ---------------------------------------------------------------- webhook

\* What requests.post can meet: a response of any status (returned, and
\* ignored by the callbacks), or no response (it raises ConnectionError).
PostOutcomes ==
  { [error |-> FALSE, status |-> 200],
    [error |-> FALSE, status |-> 500],
    [error |-> TRUE,  status |-> 0] }

\* One POST as the log of the webhook traffic keeps it: the event it carries
\* and how the delivery ended.  The JSON body is the callback's local payload.
PostEntry(event, out) ==
  [event_id |-> event.event_id, server_timestamp |-> event.server_timestamp,
   error |-> out.error, status |-> out.status]

\* requests.post(...) as the last statement of a callback: the exception it
\* raises, if any, leaves the callback.
PostRaises(out) == IF out.error THEN "ConnectionError" ELSE "none"

\* ------------------------------------------------------------------ state

VARIABLES
  last_event_timestamp,  \* MatrixBot.last_event_timestamp, the watermark
  start_time,            \* int(time.time() * 1000) at construction
  fatal,                 \* "none", or the exception that ended sync_forever
  pending,               \* image callbacks suspended in await download_media
  posts,                 \* the POSTs issued to the webhook, in order
  payload,               \* the payload the current callback has posted
  fetches,               \* the URLs of the media GETs issued, in order
  lookups,               \* number of transform_mxc_url calls
  response,              \* what the media host answered the current callback
  fetched,               \* what download_media gave the current callback
  delivered,             \* timestamps of the events handed to callbacks, in order
  cur                    \* the last callback invocation: kind, event, accepted

vars ==
  <<last_event_timestamp, start_time, fatal, pending, posts, payload, fetches,
    lookups, response, fetched, delivered, cur>>

NoPayload == [type |-> "none"]

NoResponse == [error |-> FALSE, status |-> 0, body |-> <<>>]

NoFetch == [raised |-> "none", media_data |-> None, response_status |-> 0]

\* __init__ with the watermark starting at 0 instead of the start time.
Init_watermark_zero ==
  /\ start_time \in StartTimes
  /\ last_event_timestamp = 0
  /\ fatal = "none"
  /\ pending = {}
  /\ posts = <<>>
  /\ payload = NoPayload
  /\ fetches = <<>>
  /\ lookups = 0
  /\ response = NoResponse
  /\ fetched = NoFetch
  /\ delivered = <<>>
  /\ cur = [kind |-> "none", event |-> NoEvent, accepted |-> FALSE]

\* MatrixBot.__init__ and main up to sync_forever: the watermark is the start
\* time, nothing has been delivered.
Init ==
  /\ start_time \in StartTimes
  /\ last_event_timestamp = start_time
  /\ fatal = "none"
  /\ pending = {}
  /\ posts = <<>>
  /\ payload = NoPayload
  /\ fetches = <<>>
  /\ lookups = 0
  /\ response = NoResponse
  /\ fetched = NoFetch
  /\ delivered = <<>>
  /\ cur = [kind |-> "none", event |-> NoEvent, accepted |-> FALSE]

\* sync_forever is still running and has another event to hand over.
Receiving == fatal = "none" /\ Len(delivered) < MaxEvents

\* requests.post(webhook_url, json=body) with the outcome out.
Post(body, event, out) ==
  /\ posts' = Append(posts, PostEntry(event, out))
  /\ payload' = body
  /\ fatal' = PostRaises(out)

\* The result of self.check_timestamp(event) in the current state.
Accepts(event) ==
  check_timestamp(event.server_timestamp, last_event_timestamp).accepted

\* The part every callback starts with: check_timestamp(event), with the
\* record of the invocation and fresh locals.
Invoke(kind, event) ==
  /\ last_event_timestamp' =
       check_timestamp(event.server_timestamp, last_event_timestamp).last_event_timestamp
  /\ cur' = [kind |-> kind, event |-> event, accepted |-> Accepts(event)]
  /\ delivered' = Append(delivered,
       [server_timestamp |-> event.server_timestamp, accepted |-> Accepts(event)])
  /\ response' = NoResponse
  /\ fetched' = NoFetch

\* MatrixBot.message_callback
message_callback ==
  /\ Receiving
  /\ \E event \in TextEvents :
       /\ Invoke("text", event)
       /\ IF Accepts(event)
          THEN \E out \in PostOutcomes : Post(TextPayload(event.room_id, event), event, out)
          ELSE payload' = NoPayload /\ UNCHANGED <<posts, fatal>>
       /\ UNCHANGED <<start_time, pending, fetches, lookups>>

\* The body audio_callback and file_callback share, up to the payload.
UrlOnlyCallback(kind, event) ==
  /\ Invoke(kind, event)
  /\ IF Accepts(event)
     THEN LET loc == transform_mxc_url(event.url)
          IN /\ lookups' = lookups + 1
             /\ IF loc.raised # "none"
                THEN /\ fatal' = loc.raised
                     /\ payload' = NoPayload
                     /\ UNCHANGED posts
                ELSE \E out \in PostOutcomes :
                       Post(IF kind = "audio"
                            THEN AudioPayload(event.room_id, event, loc.url)
                            ELSE FilePayload(event.room_id, event, loc.url),
                            event, out)
     ELSE payload' = NoPayload /\ UNCHANGED <<posts, fatal, lookups>>
  /\ UNCHANGED <<start_time, pending, fetches>>

\* MatrixBot.audio_callback
audio_callback ==
  /\ Receiving
  /\ \E event \in MediaEvents :
       UrlOnlyCallback("audio", event)

\* MatrixBot.file_callback
file_callback ==
  /\ Receiving
  /\ \E event \in MediaEvents :
       UrlOnlyCallback("file", event)

\* MatrixBot.image_callback up to its await: check_timestamp, transform_mxc_url,
\* then either the GET of download_media is issued and the callback is
\* suspended, or image_url is None and unpacking None raises TypeError.
image_callback ==
  /\ Receiving
  /\ \E event \in MediaEvents :
       /\ Invoke("image", event)
       /\ IF Accepts(event)
          THEN LET loc == transform_mxc_url(event.url)
               IN /\ lookups' = lookups + 1
                  /\ IF loc.raised # "none"
                     THEN /\ fatal' = loc.raised
                          /\ UNCHANGED <<pending, fetches>>
                     ELSE IF ~loc.url.some
                     THEN /\ fatal' = "TypeError"
                          /\ UNCHANGED <<pending, fetches>>
                     ELSE /\ pending' = pending \cup
                               {[event |-> event, image_url |-> loc.url]}
                          /\ fetches' = Append(fetches, loc.url.val)
                          /\ UNCHANGED fatal
          ELSE UNCHANGED <<fatal, pending, fetches, lookups>>
       /\ payload' = NoPayload
       /\ UNCHANGED <<start_time, posts>>

\* MatrixBot.image_callback from the await on: download_media returns or
\* raises, then the payload is built and posted.
image_callback_resume ==
  /\ fatal = "none"
  /\ \E task \in pending, resp \in FetchOutcomes :
       LET got == download_media(resp)
       IN /\ pending' = pending \ {task}
          /\ response' = resp
          /\ fetched' = got
          /\ IF got.raised # "none"
             THEN /\ fatal' = got.raised
                  /\ UNCHANGED <<posts, payload>>
             ELSE \E out \in PostOutcomes :
                    Post(ImagePayload(task.event.room_id, task.event, task.image_url,
                                      got.media_data),
                         task.event, out)
          /\ UNCHANGED <<last_event_timestamp, start_time, fetches, lookups,
                         delivered, cur>>

\* nio awaits each callback before it hands over the next event: a new event
\* is delivered only when no callback is suspended.
Next ==
  \/ pending = {} /\ message_callback
  \/ pending = {} /\ image_callback
  \/ pending = {} /\ audio_callback
  \/ pending = {} /\ file_callback
  \/ image_callback_resume

Spec == Init /\ [][Next]_vars

\* The callbacks run as concurrent tasks: an event is handed to its callback
\* while image callbacks are suspended in their await, and a suspended
\* callback goes on at any later time.  Each action is the code between two
\* suspension points, so check_timestamp is never interleaved.
NextConcurrent ==
  \/ Len(delivered) < MaxInterleaved /\ message_callback
  \/ Len(delivered) < MaxInterleaved /\ image_callback
  \/ Len(delivered) < MaxInterleaved /\ audio_callback
  \/ Len(delivered) < MaxInterleaved /\ file_callback
  \/ image_callback_resume

SpecConcurrent == Init /\ [][NextConcurrent]_vars

\* ----------------------------------------------------------------- claims

\* A step in which sync_forever hands an event to a callback; the event and
\* its kind are then in cur'.
Delivery == delivered' # delivered

\* C1: the watermark never decreases: no step of any callback, whatever the
\* kind, timestamp and order of the events, lowers last_event_timestamp.
C1_WatermarkNeverDecreases ==
  [][last_event_timestamp' >= last_event_timestamp]_vars

\* C1 witness: after the watermark advanced past the start time, an event
\* with a lower timestamp was delivered.
C1_Witness ==
  /\ cur.kind # "none"
  /\ start_time < last_event_timestamp
  /\ cur.event.server_timestamp < last_event_timestamp

\* C2: an event with server_timestamp <= watermark (ties included) is
\* rejected by every callback, with the watermark unchanged and without a
\* media lookup, a media fetch or a webhook POST.
C2_StaleEventHasNoEffect ==
  [][(Delivery /\ cur'.event.server_timestamp <= last_event_timestamp)
       => /\ ~cur'.accepted
          /\ last_event_timestamp' = last_event_timestamp
          /\ lookups' = lookups
          /\ fetches' = fetches
          /\ pending' = pending
          /\ posts' = posts
          /\ payload' = NoPayload
          /\ fatal' = fatal]_vars

\* C2 witness: an image event at exactly the watermark was delivered after an
\* earlier event had been posted, and was dropped.
C2_Witness ==
  /\ cur.kind = "image"
  /\ ~cur.accepted
  /\ cur.event.server_timestamp = last_event_timestamp
  /\ Len(posts) = 1
  /\ Len(delivered) = 2

\* The delivered events have strictly increasing timestamps.
StrictlyIncreasing(d) ==
  \A i \in 1..(Len(d) - 1) : d[i].server_timestamp < d[i + 1].server_timestamp

\* C3 as stated: whenever the events delivered so far have strictly
\* increasing timestamps, all of them were accepted and the watermark is the
\* last one's timestamp.
C3_AsStated ==
  (delivered # <<>> /\ StrictlyIncreasing(delivered))
    => /\ \A i \in 1..Len(delivered) : delivered[i].accepted
       /\ last_event_timestamp = delivered[Len(delivered)].server_timestamp

\* C3 amended: the same for sequences whose first timestamp is greater than
\* the initial watermark (the start time).
C3_IncreasingAboveStartAllAccepted ==
  (/\ delivered # <<>>
   /\ StrictlyIncreasing(delivered)
   /\ delivered[1].server_timestamp > start_time)
    => /\ \A i \in 1..Len(delivered) : delivered[i].accepted
       /\ last_event_timestamp = delivered[Len(delivered)].server_timestamp

\* C3 witness: two events with increasing timestamps above the start time
\* were delivered.
C3_Witness ==
  /\ Len(delivered) >= 2
  /\ StrictlyIncreasing(delivered)
  /\ delivered[1].server_timestamp > start_time

\* C4: a text event with server_timestamp above the watermark adds exactly
\* one POST, whose body is {type: "text", sender, message: body, event_id,
\* room_id} of that event, and leaves the watermark at its timestamp.
C4_TextEndToEnd ==
  [][(Delivery /\ cur'.kind = "text"
        /\ cur'.event.server_timestamp > last_event_timestamp)
       => /\ Len(posts') = Len(posts) + 1
          /\ SubSeq(posts', 1, Len(posts)) = posts
          /\ posts'[Len(posts')].event_id = cur'.event.event_id
          /\ payload' = [type |-> "text",
                         sender |-> cur'.event.sender,
                         message |-> cur'.event.body,
                         event_id |-> cur'.event.event_id,
                         room_id |-> cur'.event.room_id]
          /\ last_event_timestamp' = cur'.event.server_timestamp]_vars

\* C4 witness: a text event was accepted and posted.
C4_Witness ==
  /\ cur.kind = "text"
  /\ cur.accepted
  /\ payload.type = "text"
  /\ last_event_timestamp = cur.event.server_timestamp
  /\ Len(posts) = 1

\* C5: once an event has been accepted, the delivery of any event with the
\* same or a lower timestamp, the same event included, posts nothing,
\* whatever its kind.
C5_ReplayPostsNothing ==
  [][(Delivery
        /\ \E i \in 1..Len(delivered) :
             /\ delivered[i].accepted
             /\ cur'.event.server_timestamp <= delivered[i].server_timestamp)
       => /\ posts' = posts
          /\ payload' = NoPayload
          /\ ~cur'.accepted]_vars

\* C5 witness: the first event was accepted and posted, a second event was
\* dropped, and then the first event came again (same event_id, same
\* timestamp) and was dropped.
C5_Witness ==
  /\ Len(delivered) = 3
  /\ delivered[1].accepted
  /\ ~delivered[2].accepted
  /\ ~delivered[3].accepted
  /\ Len(posts) = 1
  /\ cur.event.event_id = posts[1].event_id
  /\ cur.event.server_timestamp = posts[1].server_timestamp

\* C6: only check_timestamp changes the watermark, and only for an accepted
\* event, once, to that event's timestamp: a step that changes it is the
\* delivery of an accepted event and leaves it at the event's timestamp, every
\* accepted delivery moves it to a new value, and the rest of a callback
\* (fetch, payload, POST, or an exception of any of them) leaves it alone.
C6_OnlyTheFilterMovesTheWatermark ==
  [][/\ (last_event_timestamp' # last_event_timestamp)
          => /\ Delivery
             /\ cur'.accepted
             /\ last_event_timestamp' = cur'.event.server_timestamp
     /\ (Delivery /\ cur'.accepted)
          => /\ last_event_timestamp' = cur'.event.server_timestamp
             /\ last_event_timestamp' # last_event_timestamp
     /\ ~Delivery => last_event_timestamp' = last_event_timestamp]_vars

\* C6 witness: the media fetch of an accepted image raised, and the
\* watermark is that image's timestamp.
C6_Witness ==
  /\ cur.kind = "image"
  /\ cur.accepted
  /\ fatal = "ClientError"
  /\ last_event_timestamp = cur.event.server_timestamp

\* The media-reference scheme mxc://authority/identifier: the prefix, then a
\* non-empty authority, one slash and a non-empty identifier without slash.
ConformingRef(ref) ==
  /\ StartsWith(ref, MxcPrefix)
  /\ LET rest == SubSeq(ref, Len(MxcPrefix) + 1, Len(ref))
     IN \E k \in 2..(Len(rest) - 1) :
          /\ rest[k] = "/"
          /\ \A j \in 1..Len(rest) : j # k => rest[j] # "/"

\* The current callback has run to its end (returned or raised).
CallbackOver == pending = {}

\* C7 as stated: an accepted image, audio or file event whose media
\* reference does not conform raises nothing out of its callback and is
\* posted with a null url.
C7_AsStated ==
  (/\ cur.kind \in {"image", "audio", "file"}
   /\ cur.accepted
   /\ ~ConformingRef(cur.event.url)
   /\ CallbackOver)
    => /\ fatal \notin {"TypeError", "ValueError"}
       /\ payload.type = cur.kind
       /\ payload.url = None

\* A step in which a suspended image callback goes on after its fetch; the
\* outcome of the fetch is then in fetched'.
Resumption == pending' # pending /\ ~Delivery

\* C8 as stated: when the download of an accepted image fails, by a network
\* error or by a status other than 200, nothing is raised out of the
\* callback and the event is posted once, with data null.
C8_AsStated ==
  [][(Resumption /\ (fetched'.raised # "none" \/ fetched'.response_status # HTTP_OK))
       => /\ fatal' # "ClientError"
          /\ Len(posts') = Len(posts) + 1
          /\ payload'.type = "image"
          /\ payload'.data = None]_vars

\* A POST of the log failed: no response, or a status outside 2xx.
FailedPost(p) == p.error \/ p.status \notin 200..299

\* C9 as stated: a failed webhook delivery does not end the receive loop.
C9_AsStated ==
  \A i \in 1..Len(posts) : FailedPost(posts[i]) => fatal # "ConnectionError"

\* C10: the watermark starts at the start time, and no event with a
\* timestamp at or below the start time is ever posted.
C10_NothingFromBeforeTheStart ==
  /\ delivered = <<>> => last_event_timestamp = start_time
  /\ last_event_timestamp >= start_time
  /\ \A i \in 1..Len(posts) : posts[i].server_timestamp > start_time

\* C10 witness: the process started after time 0, an event from before the
\* start was delivered and then a newer one; only the newer one was posted.
C10_Witness ==
  /\ start_time > 0
  /\ Len(delivered) = 2
  /\ delivered[1].server_timestamp <= start_time
  /\ ~delivered[1].accepted
  /\ delivered[2].accepted
  /\ Len(posts) = 1

\* C11: the watermark is one value for all rooms and senders: an event above
\* the watermark is accepted, and an event with another event_id, in another
\* room, that carries the timestamp of an event posted before it is dropped
\* and posts nothing.
C11_SameTimestampOtherRoomDropped ==
  [][/\ (Delivery /\ cur'.event.server_timestamp > last_event_timestamp)
          => cur'.accepted
     /\ (Delivery
           /\ \E i \in 1..Len(posts) :
                /\ posts[i].server_timestamp = cur'.event.server_timestamp
                /\ posts[i].event_id # cur'.event.event_id)
          => /\ ~cur'.accepted
             /\ posts' = posts
             /\ payload' = NoPayload
     /\ (Delivery /\ cur.accepted
           /\ cur.event.server_timestamp = cur'.event.server_timestamp
           /\ cur.event.event_id # cur'.event.event_id
           /\ cur.event.room_id # cur'.event.room_id)
          => /\ ~cur'.accepted
             /\ posts' = posts]_vars

\* C11 witness: event $1 of room !r:h was accepted and posted, then event $2
\* of room !q:h with the same timestamp was delivered and dropped.
C11_Witness ==
  /\ Len(delivered) = 2
  /\ delivered[1].accepted
  /\ ~delivered[2].accepted
  /\ delivered[1].server_timestamp = delivered[2].server_timestamp
  /\ Len(posts) = 1
  /\ posts[1].event_id = "$1"
  /\ cur.event.event_id = "$2"
  /\ cur.event.room_id = "!q:h"

\* The part of a media reference after mxc://.
RefRest(ref) == SubSeq(ref, Len(MxcPrefix) + 1, Len(ref))

\* The position of the first slash of a sequence.
FirstSlash(rest) ==
  CHOOSE k \in 1..Len(rest) : rest[k] = "/" /\ \A j \in 1..(k - 1) : rest[j] # "/"

\* server_name and media_id of a conforming reference mxc://server_name/media_id.
RefServerName(ref) == SubSeq(RefRest(ref), 1, FirstSlash(RefRest(ref)) - 1)

RefMediaId(ref) ==
  SubSeq(RefRest(ref), FirstSlash(RefRest(ref)) + 1, Len(RefRest(ref)))

\* The current callback has called transform_mxc_url(cur.event.url).
Located == cur.kind \in {"image", "audio", "file"} /\ cur.accepted

\* C12 as stated: for a conforming reference the locator returns the URL
\* H/_matrix/v3/download/server_name/media_id and, with it, the identifier
\* media_id.
C12_AsStated ==
  (Located /\ ConformingRef(cur.event.url))
    => LET loc == transform_mxc_url(cur.event.url)
       IN /\ loc.raised = "none"
          /\ loc.url = Some(Homeserver \o <<"/_matrix/v3/download/">>
                              \o RefServerName(cur.event.url) \o <<"/">>
                              \o RefMediaId(cur.event.url))
          /\ "media_id" \in DOMAIN loc
          /\ loc.media_id = RefMediaId(cur.event.url)

\* C13 as stated: for every reference that does not conform the locator
\* returns None and raises nothing.
C13_AsStated ==
  (Located /\ ~ConformingRef(cur.event.url))
    => LET loc == transform_mxc_url(cur.event.url)
       IN /\ loc.raised = "none"
          /\ loc.url = None

\* The base64 text of the bodies the media host serves (RFC 4648): "abc",
\* "fo", "f" and the empty body.
KnownBase64(body) ==
  IF body = <<97, 98, 99>> THEN <<"Y", "W", "J", "j">>
  ELSE IF body = <<102, 111>> THEN <<"Z", "m", "8", "=">>
  ELSE IF body = <<102>> THEN <<"Z", "g", "=", "=">>
  ELSE <<>>

\* C14: download_media issues one GET per call, none after the answer, and
\* for every response returns the response's status with a content that is
\* present exactly when the status is 200, and is then the base64 text of the
\* whole body.
C14_FetchReturnsContentIffOk ==
  [][/\ (Delivery /\ cur'.kind = "image" /\ cur'.accepted /\ pending' # pending)
          => /\ Len(fetches') = Len(fetches) + 1
             /\ fetches'[Len(fetches')] = (CHOOSE t \in pending' : t \notin pending).image_url.val
     /\ Resumption => fetches' = fetches
     /\ (Resumption /\ ~response'.error)
          => /\ fetched'.raised = "none"
             /\ fetched'.response_status = response'.status
             /\ fetched'.media_data.some <=> (response'.status = 200)
             /\ (response'.status = 200)
                  => fetched'.media_data = Some(KnownBase64(response'.body))
             /\ (response'.status # 200) => fetched'.media_data = None]_vars

\* C14 witness: the media host answered 404 with a body, and download_media
\* returned no content and status 404.
C14_Witness ==
  /\ response.status = 404
  /\ response.body # <<>>
  /\ fetched.response_status = 404
  /\ ~fetched.media_data.some
  /\ Len(fetches) = 1

\* C15 as stated: the payload posted for an accepted image event with a
\* conforming reference has type "image", the event's sender, event_id and
\* room_id, the download URL under url, the fetched base64 content (or null)
\* under data, and the identifier of the reference under media_id.
C15_AsStated ==
  (payload.type = "image" /\ ConformingRef(cur.event.url))
    => /\ cur.kind = "image" /\ cur.accepted
       /\ payload.sender = cur.event.sender
       /\ payload.event_id = cur.event.event_id
       /\ payload.room_id = cur.event.room_id
       /\ payload.url = Some(Homeserver \o <<"/_matrix/v3/download/">>
                               \o RefServerName(cur.event.url) \o <<"/">>
                               \o RefMediaId(cur.event.url))
       /\ payload.data = IF response.status = 200
                         THEN Some(KnownBase64(response.body))
                         ELSE None
       /\ "media_id" \in DOMAIN payload
       /\ payload.media_id = RefMediaId(cur.event.url)

\* What the locator is to give for a reference: the download URL of a
\* conforming one, None for any other.
ExpectedLocation(ref) ==
  IF ConformingRef(ref)
  THEN Some(Homeserver \o <<"/_matrix/v3/download/">>
              \o RefServerName(ref) \o <<"/">> \o RefMediaId(ref))
  ELSE None

\* C16 as stated: every accepted audio or file event is located, is never
\* fetched, and adds exactly one POST whose body is {type: "audio" or "file",
\* sender, url, event_id, room_id} with the located URL and no data field.
C16_AsStated ==
  [][(Delivery /\ cur'.kind \in {"audio", "file"} /\ cur'.accepted)
       => /\ lookups' = lookups + 1
          /\ fetches' = fetches
          /\ pending' = pending
          /\ Len(posts') = Len(posts) + 1
          /\ posts'[Len(posts')].event_id = cur'.event.event_id
          /\ payload' = [type |-> cur'.kind,
                         sender |-> cur'.event.sender,
                         url |-> ExpectedLocation(cur'.event.url),
                         event_id |-> cur'.event.event_id,
                         room_id |-> cur'.event.room_id]]_vars

\* C17: with one callback at a time, the POSTs carry strictly increasing
\* timestamps in the order they are issued, so no event is posted twice, and
\* there are never more POSTs than accepted (hence delivered) events.
C17_PostsInTimestampOrder ==
  /\ \A i, j \in 1..Len(posts) :
       i < j => posts[i].server_timestamp < posts[j].server_timestamp
  /\ \A i, j \in 1..Len(posts) :
       (/\ posts[i].event_id = posts[j].event_id
        /\ posts[i].server_timestamp = posts[j].server_timestamp) => i = j
  /\ Len(posts) <= Cardinality({i \in 1..Len(delivered) : delivered[i].accepted})
  /\ Len(posts) <= Len(delivered)

\* C17 witness: an event was posted, an event with the same or a lower
\* timestamp came after it and was dropped, and a third, newer event was
\* posted.
C17_Witness ==
  /\ Len(delivered) = 3
  /\ Len(posts) = 2
  /\ delivered[2].server_timestamp <= delivered[1].server_timestamp
  /\ ~delivered[2].accepted
  /\ pending = {}

\* The POST p carries the event e.
Carries(p, e) ==
  p.event_id = e.event_id /\ p.server_timestamp = e.server_timestamp

\* The media download of the current callback failed: the GET raised, or it
\* was answered with a status other than 200.
FailedFetch ==
  \/ fetched.raised # "none"
  \/ fetched # NoFetch /\ fetched.response_status # HTTP_OK

\* C18, the state part: an accepted event whose fetch or POST has just failed
\* has left its timestamp in the watermark; the watermark stays at or above
\* the timestamp of every event whose POST failed, and such an event has no
\* other POST; an image whose fetch raised has no POST at all.
C18_WatermarkKeptOnFailure ==
  /\ \A i \in 1..Len(posts) :
       FailedPost(posts[i])
         => /\ last_event_timestamp >= posts[i].server_timestamp
            /\ \A j \in 1..Len(posts) :
                 (j # i) => ~(/\ posts[j].event_id = posts[i].event_id
                              /\ posts[j].server_timestamp = posts[i].server_timestamp)
  /\ (cur.accepted /\ payload # NoPayload /\ FailedPost(posts[Len(posts)]))
       => last_event_timestamp = cur.event.server_timestamp
  /\ (cur.kind = "image" /\ cur.accepted /\ FailedFetch)
       => /\ last_event_timestamp = cur.event.server_timestamp
          /\ (fetched.raised # "none")
               => \A i \in 1..Len(posts) : ~Carries(posts[i], cur.event)

C19_AcceptedTimestampsDistinct ==
  \A i, j \in 1..Len(delivered) :
    (i < j /\ delivered[i].accepted /\ delivered[j].accepted)
      => delivered[i].server_timestamp < delivered[j].server_timestamp

\* C19: when other callbacks run while image callbacks are suspended in
\* their fetch, the watermark still never decreases and no two accepted
\* events share a timestamp.
C19_WatermarkSafeUnderInterleaving ==
  /\ []C19_AcceptedTimestampsDistinct
  /\ [][/\ last_event_timestamp' >= last_event_timestamp
        /\ (Delivery /\ cur'.accepted)
             => last_event_timestamp' > last_event_timestamp]_vars

\* C19 witness: the POSTs are out of timestamp order: an image was accepted
\* and suspended in its fetch, a later event was accepted and posted, and
\* then the image's POST was issued.
C19_Witness ==
  /\ Len(posts) = 2
  /\ posts[1].server_timestamp > posts[2].server_timestamp
  /\ payload.type = "image"
  /\ Carries(posts[2], [event_id |-> payload.event_id,
                        server_timestamp |-> delivered[1].server_timestamp])
  /\ delivered[1].accepted
  /\ delivered[2].accepted
  /\ delivered[1].server_timestamp < delivered[2].server_timestamp
  /\ posts[1].server_timestamp = delivered[2].server_timestamp

====
